---- MODULE Spec2Model ----
(***************************************************************************)
(* Model of the API server of api/server/server.go (src/unnamed/part_001): *)
(* listener bindings and their serving goroutines, the fan-in of their     *)
(* outcomes in serveAPI/Wait, Close, and the routing table that createMux  *)
(* builds and that EnableProfiler/DisableProfiler swap into the router     *)
(* swapper while requests are being dispatched, and the dispatch adapter   *)
(* of makeHTTPHandler with the middlewares of UseMiddleware.               *)
(***************************************************************************)
EXTENDS Integers, Sequences, FiniteSets, TLC

\* ------------------------------------------------------------------------
\* Bounds of the model
\* ------------------------------------------------------------------------
MaxServers == 2
MaxRouters == 2
MaxInitCalls == 2
MaxSwaps == 2
MaxCloseCalls == 2
MaxMiddlewares == 2

\* ------------------------------------------------------------------------
\* Errors.  An error value is nil or carries a message; a message is a
\* sequence of text fragments so that strings.Contains is a real search.
\* ------------------------------------------------------------------------
Nil == [nil |-> TRUE, msg |-> <<>>]

Err(m) == [nil |-> FALSE, msg |-> m]

\* the text serveAPI looks for in the error of a finished serving loop
ClosedText == <<"use of closed network connection">>

\* what Accept on a closed listener returns: the text prefixed by the
\* operation and the address
ErrAcceptClosed == Err(<<"accept tcp", "use of closed network connection">>)

\* what Close on an already closed listener returns
ErrCloseClosed == Err(<<"close tcp", "use of closed network connection">>)

\* a close that fails for another reason (the listener is released anyway)
ErrCloseOther == Err(<<"close unix", "unlink failed">>)

\* terminal errors of a serving loop whose listener is still open
OtherServeErrs ==
  { Err(<<"accept tcp", "too many open files">>),
    Err(<<"accept unix", "connection", "closed by peer">>) }

\* strings.Contains(s, sub)
Contains(s, sub) ==
  \E k \in 0..(Len(s) - Len(sub)) :
     \A j \in 1..Len(sub) : s[k + j] = sub[j]

\* a faulty filter: the message is compared for equality with the text
FilterServeErrEq(err) ==
  IF ~err.nil /\ err.msg = ClosedText THEN Nil ELSE err

\* a faulty filter: every error is dropped
FilterServeErrAny(err) ==
  IF ~err.nil \/ Contains(err.msg, ClosedText) THEN Nil ELSE err

\* serveAPI, the per-listener goroutine: the outcome sent on chErrors for
\* the error that srv.Serve() returned
FilterServeErr(err) ==
  IF ~err.nil /\ Contains(err.msg, ClosedText) THEN Nil ELSE err

\* ------------------------------------------------------------------------
\* Paths, patterns and routes
\* ------------------------------------------------------------------------
\* a path is the sequence of its segments: /v1.24/ping is <<"v1.24","ping">>
VersionTokens == {"v1.24"}

Methods == {"GET", "POST"}

\* [0-9.]+ after the v of versionMatcher
IsVersionToken(s) == s \in VersionTokens

\* one pattern element against one path segment
SegMatch(p, s) ==
  CASE p = "{version}" -> IsVersionToken(s)
    [] p = "{var}"     -> TRUE
    [] OTHER           -> p = s

\* a gorilla/mux path template against a path; "{path:.*}" takes the rest
\* of the path after its slash
RECURSIVE PathMatch(_, _)
PathMatch(pat, path) ==
  IF pat = <<>> THEN path = <<>>
  ELSE IF Head(pat) = "{path:.*}" THEN Len(path) >= 1
  ELSE /\ path # <<>>
       /\ SegMatch(Head(pat), Head(path))
       /\ PathMatch(Tail(pat), Tail(path))

versionMatcher == <<"{version}">>

Route(m, p, h) == [method |-> m, path |-> p, handler |-> h]

\* the route providers a caller may pass to InitRouter
PingRouter == << Route("GET", <<"ping">>, "ping.get") >>

SystemRouter ==
  << Route("GET", <<"ping">>, "system.ping"),
     Route("POST", <<"ping">>, "system.post") >>

ObjectRouter == << Route("GET", <<"{var}", "{var}">>, "object.get") >>

Providers == {PingRouter, SystemRouter, ObjectRouter}

\* the requests a client may send
ReqPaths ==
  { <<"ping">>, <<"v1.24", "ping">>, <<"v1.24", "v1.24", "ping">>,
    <<"debug", "vars">>, <<"v1.24", "debug", "vars">>, <<"debug", "pprof">>,
    <<"vars">>, <<"v1.24", "vars">>, <<"v1.24">> }

Requests == [method : Methods, path : ReqPaths]

\* the requests sent while the tables are being swapped
Traffic ==
  { [method |-> "GET", path |-> <<"debug", "vars">>],
    [method |-> "GET", path |-> <<"v1.24", "ping">>],
    [method |-> "POST", path |-> <<"ping">>] }

\* ------------------------------------------------------------------------
\* Handlers and the routing table
\* ------------------------------------------------------------------------
\* http handlers are told apart by kind and identity
DefaultNotFound == [kind |-> "http.NotFound", id |-> 0, fn |-> ""]

notFoundHandler == [kind |-> "RequestNotFoundError", id |-> 0, fn |-> ""]

\* the closure makeHTTPHandler returns for the k-th route of the build
makeHTTPHandler(k, handler) == [kind |-> "api", id |-> k, fn |-> handler]

Entry(pat, methods, h) == [pat |-> pat, methods |-> methods, h |-> h]

NewRouter == [routes |-> <<>>, NotFoundHandler |-> DefaultNotFound]

\* the routes of all providers, provider order then route order
RECURSIVE AllRoutes(_)
AllRoutes(routers) ==
  IF routers = <<>> THEN <<>>
  ELSE Head(routers) \o AllRoutes(Tail(routers))

\* a faulty build: the bare path is not registered
RouteEntriesVersionedOnly(k, r) ==
  << Entry(versionMatcher \o r.path, {r.method}, makeHTTPHandler(k, r.handler)) >>

\* the two registrations createMux makes for the k-th route
RouteEntries(k, r) ==
  << Entry(versionMatcher \o r.path, {r.method}, makeHTTPHandler(k, r.handler)),
     Entry(r.path, {r.method}, makeHTTPHandler(k, r.handler)) >>

RECURSIVE RegisterFrom(_, _)
RegisterFrom(k, rs) ==
  IF k > Len(rs) THEN <<>>
  ELSE RouteEntries(k, rs[k]) \o RegisterFrom(k + 1, rs)

\* a faulty catch-all: without the version prefix it matches every path
CatchAllBare == Entry(<<"{path:.*}">>, {}, notFoundHandler)

\* the catch-all createMux registers after the routes; no method filter
CatchAll == Entry(versionMatcher \o <<"{path:.*}">>, {}, notFoundHandler)

\* a faulty build: the router keeps its default not-found handler
createMuxNoFallback(routers) ==
  [routes |-> RegisterFrom(1, AllRoutes(routers)) \o <<CatchAll>>,
   NotFoundHandler |-> NewRouter.NotFoundHandler]

\* createMux: the routes of all providers in both forms, the catch-all
\* under the version prefix, and the not-found handler of the router
createMux(routers) ==
  [routes |-> RegisterFrom(1, AllRoutes(routers)) \o <<CatchAll>>,
   NotFoundHandler |-> notFoundHandler]

\* the diagnostics routes, under /debug/, any method
ProfilerRoutes ==
  << Entry(<<"debug", "vars">>, {}, [kind |-> "profiler", id |-> 1, fn |-> "expVars"]),
     Entry(<<"debug", "pprof">>, {}, [kind |-> "profiler", id |-> 2, fn |-> "pprof.Index"]) >>

profilerSetup(m) == [m EXCEPT !.routes = @ \o ProfilerRoutes]

\* one route of a table against a request
EntryMatches(e, req) ==
  /\ PathMatch(e.pat, req.path)
  /\ (e.methods = {} \/ req.method \in e.methods)

\* mux.Router.ServeHTTP: the first route that matches, else NotFoundHandler
RECURSIVE FirstMatch(_, _, _)
FirstMatch(routes, k, req) ==
  IF k > Len(routes) THEN 0
  ELSE IF EntryMatches(routes[k], req) THEN k
  ELSE FirstMatch(routes, k + 1, req)

Dispatch(m, req) ==
  LET k == FirstMatch(m.routes, 1, req)
  IN IF k = 0 THEN m.NotFoundHandler ELSE m.routes[k].h

\* ------------------------------------------------------------------------
\* The dispatch adapter (makeHTTPHandler)
\* ------------------------------------------------------------------------
\* a path-variable mapping is null or a list of name/value pairs
NullVars == [null |-> TRUE, kv |-> <<>>]

VarMap(kv) == [null |-> FALSE, kv |-> kv]

\* the name of the variable a pattern element binds
VarName(p) == IF p = "{version}" THEN "version" ELSE "var"

\* the variables a path template binds on a path it matches
RECURSIVE Bind(_, _)
Bind(pat, path) ==
  IF pat = <<>> \/ path = <<>> THEN <<>>
  ELSE IF Head(pat) \in {"{version}", "{var}"}
       THEN << <<VarName(Head(pat)), Head(path)>> >> \o Bind(Tail(pat), Tail(path))
       ELSE Bind(Tail(pat), Tail(path))

\* mux.Vars(r): the variables of the matched route, nil when it has none
muxVars(pat, path) ==
  LET kv == Bind(pat, path)
  IN IF kv = <<>> THEN NullVars ELSE VarMap(kv)

\* a faulty adapter: the mapping is passed on as mux.Vars returned it
AdapterVarsRaw(v) == v

\* vars := mux.Vars(r); if vars == nil { vars = make(map[string]string) }
AdapterVars(v) == IF v.null THEN VarMap(<<>>) ELSE v

\* the middlewares a caller may register
Middlewares == {"version", "cors", "authz"}

\* s.handlerWithGlobalMiddlewares(handler): the handler wrapped in the
\* middlewares mw, the first registered outermost
handlerWithGlobalMiddlewares(mw, fn) == [mw |-> mw, fn |-> fn]

\* what a command handler may return: nil, a not-found error, another error
HandlerErrs ==
  { Nil, Err(<<"no such", "container">>), Err(<<"runtime", "failure">>) }

\* httputils.GetHTTPErrorStatusCode: not-found errors are 404, others 500
GetHTTPErrorStatusCode(err) ==
  IF Contains(err.msg, <<"no such">>) THEN 404 ELSE 500

\* the response a command handler writes when it writes one
HandlerResponse == [by |-> "handler", status |-> 200]

\* httputils.MakeErrorHandler(err)(w, r): the structured error response
MakeErrorHandler(err) ==
  [by |-> "MakeErrorHandler", status |-> GetHTTPErrorStatusCode(err)]

\* the responses written on w by one run of the adapter's closure, for a
\* handler that wrote a response or not and returned err
AdapterWrites(wrote, err) ==
  (IF wrote THEN <<HandlerResponse>> ELSE <<>>)
    \o (IF ~err.nil THEN <<MakeErrorHandler(err)>> ELSE <<>>)

\* ------------------------------------------------------------------------
\* State
\* ------------------------------------------------------------------------
Listeners == 1..MaxServers

VARIABLES
  routers,        \* Server.routers: the providers, in registration order
  initCalls,      \* number of InitRouter calls made
  muxes,          \* the *mux.Router objects allocated so far, by address
  swappers,       \* the routerSwapper objects allocated so far, by address
  routerSwapper,  \* Server.routerSwapper: an address in swappers, 0 = nil
  installed,      \* history: each table put into a swapper, as it was then,
                  \* and the operation that put it there
  adm,            \* the administrative caller inside Enable/DisableProfiler
  swaps,          \* number of Enable/DisableProfiler calls made
  req,            \* a request on its way through routerSwapper.ServeHTTP
  servers,        \* Server.servers: the listener of each binding, in order
  lclosed,        \* per listener: Close() has been called on it
  handler,        \* per binding: srv.srv.Handler, a swapper address, 0 = nil
  gpc,            \* per binding: where its serving goroutine is
  gret,           \* per binding: what srv.Serve() returned
  gerr,           \* per binding: the local err, as sent on chErrors
  chErrors,       \* every value sent on chErrors, in the order sent
  chRecv,         \* how many of them serveAPI has received
  chCap,          \* capacity of chErrors
  wpc,            \* where Wait/serveAPI is
  i,              \* serveAPI's loop counter
  werr,           \* what serveAPI returned
  waitChan,       \* the values Wait has sent on waitChan
  cidx,           \* Close: the binding being closed, 0 = not inside Close
  closeCalls,     \* number of Close calls made
  closeLog,       \* every l.Close() made: the call, the listener, its result
  logged,         \* the errors passed to logrus.Error by Close
  middlewares,    \* Server.middlewares: the middlewares, in registration order
  call            \* the dispatch adapter's run for the request in flight

rvars == <<routers, initCalls, muxes, swappers, routerSwapper, installed, adm, swaps>>

lvars == <<servers, lclosed, handler, gpc, gret, gerr>>

wvars == <<chErrors, chRecv, chCap, wpc, i, werr, waitChan>>

cvars == <<cidx, closeCalls, closeLog, logged>>

mvars == <<middlewares, call>>

vars == <<rvars, req, lvars, wvars, cvars, mvars>>

AdmIdle == [op |-> "none", pc |-> 0, m |-> 0]

ReqIdle ==
  [pc |-> "idle", sw |-> 0, r |-> [method |-> "GET", path |-> <<>>],
   rt |-> 0, seen |-> NewRouter, h |-> DefaultNotFound]

\* no adapter has run for the request in flight
CallIdle ==
  [invoked |-> 0, handlerFunc |-> handlerWithGlobalMiddlewares(<<>>, ""),
   vars |-> NullVars, err |-> Nil, w |-> <<>>]

\* server.New: an empty server, nothing started
Init ==
  /\ middlewares = <<>>
  /\ call = CallIdle
  /\ routers = <<>>
  /\ initCalls = 0
  /\ muxes = <<>>
  /\ swappers = <<>>
  /\ routerSwapper = 0
  /\ installed = {}
  /\ adm = AdmIdle
  /\ swaps = 0
  /\ req = ReqIdle
  /\ servers = <<>>
  /\ lclosed = [l \in Listeners |-> FALSE]
  /\ handler = <<>>
  /\ gpc = <<>>
  /\ gret = <<>>
  /\ gerr = <<>>
  /\ chErrors = <<>>
  /\ chRecv = 0
  /\ chCap = 0
  /\ wpc = "idle"
  /\ i = 0
  /\ werr = Nil
  /\ waitChan = <<>>
  /\ cidx = 0
  /\ closeCalls = 0
  /\ closeLog = <<>>
  /\ logged = <<>>

\* ------------------------------------------------------------------------
\* Setup: Accept and InitRouter
\* ------------------------------------------------------------------------
Range(s) == {s[k] : k \in 1..Len(s)}

\* the argument list of an Accept call with n listeners: listeners are new
\* objects, numbered in the order they are passed to the server
NewListeners(n) == [k \in 1..n |-> Len(servers) + k]

\* Accept(addr, listeners...): one binding per listener, appended in order.
\* Bindings are registered during setup, before Wait or Close is called.
Accept(ls) ==
  /\ wpc = "idle"
  /\ closeCalls = 0
  /\ Len(servers) + Len(ls) <= MaxServers
  /\ servers' = servers \o ls
  /\ handler' = handler \o [k \in 1..Len(ls) |-> 0]
  /\ gpc' = gpc \o [k \in 1..Len(ls) |-> "none"]
  /\ gret' = gret \o [k \in 1..Len(ls) |-> Nil]
  /\ gerr' = gerr \o [k \in 1..Len(ls) |-> Nil]
  /\ UNCHANGED <<lclosed, rvars, req, wvars, cvars>>
  /\ UNCHANGED mvars

\* a faulty build: the table is built in the router object allocated last
NewMuxReuse(ms, m) ==
  IF ms = <<>> THEN <<m>> ELSE [ms EXCEPT ![Len(ms)] = m]

\* m := mux.NewRouter(): every build fills a router object of its own
NewMux(ms, m) == Append(ms, m)

\* the argument lists InitRouter may get: distinct providers, taken from
\* the set from, that are not registered yet
RouterLists(from, used) ==
  { rs \in UNION {[1..n -> from \ used] : n \in 1..MaxRouters} :
      \A j, k \in 1..Len(rs) : j # k => rs[j] # rs[k] }

\* a faulty InitRouter: the providers of earlier calls are dropped
AppendRoutersReplace(old, new) == new

\* s.routers = append(s.routers, routers...)
AppendRouters(old, new) == old \o new

\* InitRouter(enableProfiler, routers...): append the providers, build the
\* table, add the profiler routes if asked, and put the table in a new
\* routerSwapper.  Called by the administrative caller between its other
\* calls.
InitRouter(enableProfiler, rs) ==
  /\ adm = AdmIdle
  /\ initCalls < MaxInitCalls
  /\ Len(routers) + Len(rs) <= MaxRouters
  /\ initCalls' = initCalls + 1
  /\ routers' = AppendRouters(routers, rs)
  /\ LET m == IF enableProfiler THEN profilerSetup(createMux(routers'))
                                ELSE createMux(routers')
         ms == NewMux(muxes, m)
         a == Len(ms)
     IN /\ muxes' = ms
        /\ swappers' = Append(swappers, [router |-> a])
        /\ routerSwapper' = Len(swappers) + 1
        /\ installed' = installed \cup
              {[m |-> a, tab |-> m,
                by |-> IF enableProfiler THEN "InitRouter(true)" ELSE "InitRouter(false)"]}
  /\ UNCHANGED <<adm, swaps, req, lvars, wvars, cvars>>
  /\ UNCHANGED mvars

\* ------------------------------------------------------------------------
\* EnableProfiler / DisableProfiler, statement by statement
\* ------------------------------------------------------------------------
\* a faulty EnableProfiler: the table is swapped in before the profiler
\* routes are added to it
EnableProfilerSwapFirst == <<"createMux", "Swap", "profilerSetup">>

\* the statements of EnableProfiler, in program order
EnableProfilerSteps == <<"createMux", "profilerSetup", "Swap">>

\* the statements of DisableProfiler, in program order
DisableProfilerSteps == <<"createMux", "Swap">>

StepsOf(op) == IF op = "enable" THEN EnableProfilerSteps ELSE DisableProfilerSteps

AtStep(name) ==
  /\ adm.op # "none"
  /\ adm.pc <= Len(StepsOf(adm.op))
  /\ StepsOf(adm.op)[adm.pc] = name

\* the caller after one more statement of its call
AdmAdvance(m) ==
  IF adm.pc < Len(StepsOf(adm.op))
  THEN [op |-> adm.op, pc |-> adm.pc + 1, m |-> m]
  ELSE AdmIdle

\* a call of EnableProfiler; the swapper exists once InitRouter has run
EnableProfiler ==
  /\ adm = AdmIdle
  /\ routerSwapper # 0
  /\ swaps < MaxSwaps
  /\ adm' = [op |-> "enable", pc |-> 1, m |-> 0]
  /\ swaps' = swaps + 1
  /\ UNCHANGED <<routers, initCalls, muxes, swappers, routerSwapper, installed>>
  /\ UNCHANGED <<req, lvars, wvars, cvars>>
  /\ UNCHANGED mvars

\* a call of DisableProfiler
DisableProfiler ==
  /\ adm = AdmIdle
  /\ routerSwapper # 0
  /\ swaps < MaxSwaps
  /\ adm' = [op |-> "disable", pc |-> 1, m |-> 0]
  /\ swaps' = swaps + 1
  /\ UNCHANGED <<routers, initCalls, muxes, swappers, routerSwapper, installed>>
  /\ UNCHANGED <<req, lvars, wvars, cvars>>
  /\ UNCHANGED mvars

\* m := s.createMux(): a new table, known only to the caller
StepCreateMux ==
  /\ AtStep("createMux")
  /\ muxes' = NewMux(muxes, createMux(routers))
  /\ adm' = AdmAdvance(Len(muxes'))
  /\ UNCHANGED <<routers, initCalls, swappers, routerSwapper, installed, swaps>>
  /\ UNCHANGED <<req, lvars, wvars, cvars>>
  /\ UNCHANGED mvars

\* profilerSetup(m): the profiler routes are added to the caller's table
StepProfilerSetup ==
  /\ AtStep("profilerSetup")
  /\ muxes' = [muxes EXCEPT ![adm.m] = profilerSetup(@)]
  /\ adm' = AdmAdvance(adm.m)
  /\ UNCHANGED <<routers, initCalls, swappers, routerSwapper, installed, swaps>>
  /\ UNCHANGED <<req, lvars, wvars, cvars>>
  /\ UNCHANGED mvars

\* routerSwapper.Swap(m): the reference is replaced under the write lock
Swap(rs, m) == [swappers EXCEPT ![rs].router = m]

\* s.routerSwapper.Swap(m)
StepSwap ==
  /\ AtStep("Swap")
  /\ swappers' = Swap(routerSwapper, adm.m)
  /\ installed' = installed \cup
        {[m |-> adm.m, tab |-> muxes[adm.m],
          by |-> IF adm.op = "enable" THEN "EnableProfiler" ELSE "DisableProfiler"]}
  /\ adm' = AdmAdvance(adm.m)
  /\ UNCHANGED <<routers, initCalls, muxes, routerSwapper, swaps>>
  /\ UNCHANGED <<req, lvars, wvars, cvars>>
  /\ UNCHANGED mvars

\* ------------------------------------------------------------------------
\* A request through a serving binding
\* ------------------------------------------------------------------------
\* routerSwapper.ServeHTTP, first half: a binding in its accept loop takes
\* a request, and its handler, the swapper sw, reads the current table
\* reference under the read lock
ReqBegin(b, r) ==
  /\ req.pc \in {"idle", "served", "handled"}
  /\ gpc[b] = "serve"
  /\ ~lclosed[servers[b]]
  /\ handler[b] # 0
  /\ req' = [pc |-> "read", sw |-> handler[b], r |-> r,
             rt |-> swappers[handler[b]].router,
             seen |-> NewRouter, h |-> DefaultNotFound]
  /\ call' = CallIdle
  /\ UNCHANGED <<middlewares, rvars, lvars, wvars, cvars>>

\* routerSwapper.ServeHTTP, second half: the request is matched against
\* the table behind the reference, as that table is now
ReqDispatch ==
  /\ req.pc = "read"
  /\ req' = [req EXCEPT !.pc = "served",
                        !.seen = muxes[req.rt],
                        !.h = Dispatch(muxes[req.rt], req.r)]
  /\ UNCHANGED <<rvars, lvars, wvars, cvars>>
  /\ UNCHANGED mvars

\* UseMiddleware(m): s.middlewares = append(s.middlewares, m)
UseMiddleware(m) ==
  /\ Len(middlewares) < MaxMiddlewares
  /\ middlewares' = Append(middlewares, m)
  /\ UNCHANGED <<call, rvars, req, lvars, wvars, cvars>>

\* the closure of makeHTTPHandler, for the request dispatched to it: the
\* handler is wrapped in the middlewares the server has now, the variables
\* of the matched route are taken, the wrapped handler is invoked, and when
\* it returns an error the error response is written
AdapterRun(wrote, err) ==
  /\ req.pc = "served"
  /\ req.h.kind = "api"
  /\ LET k == FirstMatch(req.seen.routes, 1, req.r)
     IN call' = [invoked |-> call.invoked + 1,
                 handlerFunc |-> handlerWithGlobalMiddlewares(middlewares, req.h.fn),
                 vars |-> AdapterVars(muxVars(req.seen.routes[k].pat, req.r.path)),
                 err |-> err,
                 w |-> AdapterWrites(wrote, err)]
  /\ req' = [req EXCEPT !.pc = "handled"]
  /\ UNCHANGED <<middlewares, rvars, lvars, wvars, cvars>>

\* ------------------------------------------------------------------------
\* Wait / serveAPI and the serving goroutines
\* ------------------------------------------------------------------------
Bindings == 1..Len(servers)

\* the outcomes sent on chErrors and not yet received
Buffered == Len(chErrors) - chRecv

\* a faulty channel: one slot, whatever the number of bindings
ChanCapOne(n) == 1

\* make(chan error, len(s.servers)): the capacity for n bindings
ChanCap(n) == n

\* Wait calls serveAPI: the channel is made with one slot per binding, and
\* every binding gets the swapper as its handler and a serving goroutine.
\* InitRouter has been called before (s.routerSwapper is set).
WaitStart ==
  /\ wpc = "idle"
  /\ routerSwapper # 0
  /\ chCap' = ChanCap(Len(servers))
  /\ handler' = [b \in Bindings |-> routerSwapper]
  /\ gpc' = [b \in Bindings |-> "serve"]
  /\ wpc' = "loop"
  /\ i' = 0
  /\ UNCHANGED <<servers, lclosed, gret, gerr, chErrors, chRecv, werr, waitChan>>
  /\ UNCHANGED <<rvars, req, cvars>>
  /\ UNCHANGED mvars

\* srv.Serve() returns because Accept failed on a listener that is open
ServeFail(b, e) ==
  /\ gpc[b] = "serve"
  /\ ~lclosed[servers[b]]
  /\ gret' = [gret EXCEPT ![b] = e]
  /\ gpc' = [gpc EXCEPT ![b] = "ret"]
  /\ UNCHANGED <<servers, lclosed, handler, gerr>>
  /\ UNCHANGED <<rvars, req, wvars, cvars>>
  /\ UNCHANGED mvars

\* srv.Serve() returns because the listener has been closed
ServeClosed(b) ==
  /\ gpc[b] = "serve"
  /\ lclosed[servers[b]]
  /\ gret' = [gret EXCEPT ![b] = ErrAcceptClosed]
  /\ gpc' = [gpc EXCEPT ![b] = "ret"]
  /\ UNCHANGED <<servers, lclosed, handler, gerr>>
  /\ UNCHANGED <<rvars, req, wvars, cvars>>
  /\ UNCHANGED mvars

\* the goroutine filters the error and sends it: chErrors <- err.  A send
\* on a full channel waits.
GoSend(b) ==
  /\ gpc[b] = "ret"
  /\ Buffered < chCap
  /\ gerr' = [gerr EXCEPT ![b] = FilterServeErr(gret[b])]
  /\ chErrors' = Append(chErrors, FilterServeErr(gret[b]))
  /\ gpc' = [gpc EXCEPT ![b] = "sent"]
  /\ UNCHANGED <<servers, lclosed, handler, gret>>
  /\ UNCHANGED <<chRecv, chCap, wpc, i, werr, waitChan>>
  /\ UNCHANGED <<rvars, req, cvars>>
  /\ UNCHANGED mvars

\* a faulty loop: one outcome fewer is received
LoopCondShort(k, n) == k < n - 1

\* the loop condition of serveAPI's receive loop
LoopCond(k, n) == k < n

\* a faulty test: serveAPI returns on a nil outcome
ReturnsOnInverted(err) == err.nil

\* serveAPI returns the received error at once when it is not nil
ReturnsOn(err) == ~err.nil

\* a faulty return: every listener is closed when serveAPI gives up
ClosedOnError(lc) == [l \in DOMAIN lc |-> TRUE]

\* return err: serveAPI returns the error and closes no listener
KeptOnError(lc) == lc

\* one iteration: err := <-chErrors; if err != nil { return err }
WaitRecv ==
  /\ wpc = "loop"
  /\ LoopCond(i, Len(servers))
  /\ Buffered > 0
  /\ chRecv' = chRecv + 1
  /\ LET err == chErrors[chRecv + 1]
     IN IF ReturnsOn(err)
        THEN /\ werr' = err
             /\ wpc' = "ret"
             /\ i' = i
             /\ lclosed' = KeptOnError(lclosed)
        ELSE /\ i' = i + 1
             /\ UNCHANGED <<werr, wpc, lclosed>>
  /\ UNCHANGED <<chErrors, chCap, waitChan>>
  /\ UNCHANGED <<servers, handler, gpc, gret, gerr>>
  /\ UNCHANGED <<rvars, req, cvars>>
  /\ UNCHANGED mvars

\* the loop has run len(s.servers) times: return nil
WaitLoopExit ==
  /\ wpc = "loop"
  /\ ~LoopCond(i, Len(servers))
  /\ werr' = Nil
  /\ wpc' = "ret"
  /\ UNCHANGED <<chErrors, chRecv, chCap, i, waitChan>>
  /\ UNCHANGED <<rvars, req, lvars, cvars>>
  /\ UNCHANGED mvars

\* Wait sends what serveAPI returned on waitChan and returns
WaitSend ==
  /\ wpc = "ret"
  /\ waitChan' = Append(waitChan, werr)
  /\ wpc' = "done"
  /\ UNCHANGED <<chErrors, chRecv, chCap, i, werr>>
  /\ UNCHANGED <<rvars, req, lvars, cvars>>
  /\ UNCHANGED mvars

\* ------------------------------------------------------------------------
\* Close
\* ------------------------------------------------------------------------
\* a call of Close; with no binding the loop body never runs
CloseBegin ==
  /\ cidx = 0
  /\ closeCalls < MaxCloseCalls
  /\ closeCalls' = closeCalls + 1
  /\ cidx' = IF Len(servers) = 0 THEN 0 ELSE 1
  /\ UNCHANGED <<closeLog, logged>>
  /\ UNCHANGED <<rvars, req, lvars, wvars>>
  /\ UNCHANGED mvars

\* HTTPServer.Close is l.Close(): what it can return for a listener
CloseResults(l) ==
  IF lclosed[l] THEN {ErrCloseClosed} ELSE {Nil, ErrCloseOther}

\* a faulty Close: the loop stops at the first close that fails
CloseNextAbort(k, err, n) == IF ~err.nil \/ k >= n THEN 0 ELSE k + 1

\* the binding Close goes on with after closing binding k of n
CloseNext(k, err, n) == IF k < n THEN k + 1 ELSE 0

\* one iteration of Close: close the binding, log the error if any
CloseStep(err) ==
  /\ cidx # 0
  /\ err \in CloseResults(servers[cidx])
  /\ lclosed' = [lclosed EXCEPT ![servers[cidx]] = TRUE]
  /\ closeLog' = Append(closeLog, [call |-> closeCalls, l |-> servers[cidx], err |-> err])
  /\ logged' = IF err.nil THEN logged ELSE Append(logged, err)
  /\ cidx' = CloseNext(cidx, err, Len(servers))
  /\ UNCHANGED <<closeCalls, servers, handler, gpc, gret, gerr>>
  /\ UNCHANGED <<rvars, req, wvars>>
  /\ UNCHANGED mvars

\* ------------------------------------------------------------------------
\* Specifications
\* ------------------------------------------------------------------------
CloseErrs == {Nil, ErrCloseClosed, ErrCloseOther}

\* building the tables: any providers in any order over the InitRouter
\* calls, and the rebuilds of EnableProfiler and DisableProfiler
TableNext ==
  \/ \E ep \in BOOLEAN, rs \in RouterLists(Providers, Range(routers)) :
        InitRouter(ep, rs)
  \/ EnableProfiler
  \/ DisableProfiler
  \/ StepCreateMux
  \/ StepProfilerSetup
  \/ StepSwap

TableSpec == Init /\ [][TableNext]_vars

\* rebuilding on a configured server: middlewares, bindings and providers
\* are registered, and EnableProfiler and DisableProfiler rebuild the table
BuildNext ==
  \/ \E m \in Middlewares \ Range(middlewares) : UseMiddleware(m)
  \/ Accept(NewListeners(MaxServers))
  \/ \E ep \in BOOLEAN, rs \in RouterLists({PingRouter, SystemRouter}, Range(routers)) :
        InitRouter(ep, rs)
  \/ EnableProfiler
  \/ DisableProfiler
  \/ StepCreateMux
  \/ StepProfilerSetup
  \/ StepSwap

BuildSpec == Init /\ [][BuildNext]_vars

\* the providers registered while requests are in flight: one with a
\* literal path and one whose pattern matches any two-segment path
SwapProviders == {PingRouter, ObjectRouter}

\* the swap under traffic: tables, swaps and requests on serving bindings
RouterNext ==
  \/ Accept(NewListeners(MaxServers))
  \/ \E ep \in BOOLEAN, rs \in RouterLists(SwapProviders, Range(routers)) :
        InitRouter(ep, rs)
  \/ WaitStart
  \/ EnableProfiler
  \/ DisableProfiler
  \/ StepCreateMux
  \/ StepProfilerSetup
  \/ StepSwap
  \/ \E b \in Bindings, r \in Traffic : ReqBegin(b, r)
  \/ ReqDispatch

RouterSpec == Init /\ [][RouterNext]_vars

\* the requests sent to the dispatch adapters
AdapterTraffic ==
  { [method |-> "GET", path |-> <<"ping">>],
    [method |-> "GET", path |-> <<"v1.24", "ping">>],
    [method |-> "GET", path |-> <<"debug", "vars">>] }

\* the dispatch adapter: middlewares and providers are registered, and
\* requests run through the adapters of the table their binding serves
AdapterNext ==
  \/ \E m \in Middlewares \ Range(middlewares) : UseMiddleware(m)
  \/ Accept(NewListeners(MaxServers))
  \/ \E rs \in RouterLists(SwapProviders, Range(routers)) : InitRouter(FALSE, rs)
  \/ WaitStart
  \/ \E b \in Bindings, r \in AdapterTraffic : ReqBegin(b, r)
  \/ ReqDispatch
  \/ \E wrote \in BOOLEAN, err \in HandlerErrs : AdapterRun(wrote, err)

AdapterSpec == Init /\ [][AdapterNext]_vars

\* the listener side: serving goroutines, Wait and Close; the router is
\* initialised once, during setup
ListenerNext ==
  \/ \E n \in 1..MaxServers : Accept(NewListeners(n))
  \/ routerSwapper = 0 /\ InitRouter(FALSE, <<PingRouter>>)
  \/ WaitStart
  \/ \E b \in Bindings, e \in OtherServeErrs : ServeFail(b, e)
  \/ \E b \in Bindings : ServeClosed(b)
  \/ \E b \in Bindings : GoSend(b)
  \/ WaitRecv
  \/ WaitLoopExit
  \/ WaitSend
  \/ CloseBegin
  \/ \E err \in CloseErrs : CloseStep(err)

ListenerSpec == Init /\ [][ListenerNext]_vars

\* the scheduler runs every goroutine that can take a step; a listener
\* that stays open may serve forever, and nobody has to call Close
ListenerFairness ==
  /\ \A b \in 1..MaxServers : WF_vars(b \in Bindings /\ ServeClosed(b))
  /\ \A b \in 1..MaxServers : WF_vars(b \in Bindings /\ GoSend(b))
  /\ WF_vars(WaitRecv)
  /\ WF_vars(WaitLoopExit)
  /\ WF_vars(WaitSend)
  /\ WF_vars(\E err \in CloseErrs : CloseStep(err))

FairListenerSpec == ListenerSpec /\ ListenerFairness

\* ------------------------------------------------------------------------
\* Properties of Wait, the serving goroutines and Close
\* ------------------------------------------------------------------------
Terminated(b) == gpc[b] = "sent"

WaitReturned == wpc \in {"ret", "done"}

\* the first value of a sequence of outcomes that is not nil, nil if none
RECURSIVE FirstErr(_)
FirstErr(outcomes) ==
  IF outcomes = <<>> THEN Nil
  ELSE IF ~Head(outcomes).nil THEN Head(outcomes)
  ELSE FirstErr(Tail(outcomes))

C3_FirstErrorInCompletionOrder ==
  wpc = "done" =>
    /\ waitChan = <<FirstErr(chErrors)>>
    /\ (waitChan[1].nil <=>
          \A b \in Bindings : Terminated(b) /\ gerr[b].nil)

\* C3, witness: two bindings failed with different errors, the binding
\* registered second completed first, and Wait has sent its error.
C3_Witness ==
  /\ wpc = "done"
  /\ Len(servers) >= 2
  /\ Terminated(1) /\ Terminated(2)
  /\ ~gerr[1].nil /\ ~gerr[2].nil /\ gerr[1] # gerr[2]
  /\ chErrors[1] = gerr[2]
  /\ waitChan = <<gerr[2]>>

\* C4: a serving loop that ended on its closed listener reports nil, any
\* other terminal error is reported as it was returned, and neither
\* chErrors nor waitChan ever carries the listener-closed error.
C4_ListenerClosedIsClean ==
  /\ \A b \in Bindings :
        Terminated(b) =>
          gerr[b] = (IF gret[b] = ErrAcceptClosed THEN Nil ELSE gret[b])
  /\ \A b \in Bindings :
        Terminated(b) => \E k \in 1..Len(chErrors) : chErrors[k] = gerr[b]
  /\ \A k \in 1..Len(chErrors) : chErrors[k] # ErrAcceptClosed
  /\ \A k \in 1..Len(waitChan) : waitChan[k] # ErrAcceptClosed

\* C4, witness: one binding ended on its closed listener, another on a
\* different error, and Wait has sent its result.
C4_Witness ==
  /\ wpc = "done"
  /\ \E b \in Bindings : Terminated(b) /\ gret[b] = ErrAcceptClosed
  /\ \E b \in Bindings : Terminated(b) /\ gret[b] \in OtherServeErrs

\* C5: when Close is running while Wait is in its receive loop, then
\* eventually Wait has sent nil and every serving goroutine has terminated,
\* unless some serving loop ended on an error other than listener-closed.
C5_CloseLeadsToNil ==
  (wpc = "loop" /\ cidx # 0)
    ~> \/ /\ waitChan = <<Nil>>
          /\ \A b \in Bindings : Terminated(b)
       \/ \E b \in Bindings : gret[b] \in OtherServeErrs

\* C5, witness: two bindings, Close was called, both serving loops ended
\* on their closed listener, and Wait has sent nil.
C5_Witness ==
  /\ Len(servers) = 2
  /\ closeCalls > 0
  /\ \A b \in Bindings : Terminated(b) /\ gret[b] = ErrAcceptClosed
  /\ waitChan = <<Nil>>

\* the number of l.Close() calls made so far by n-binding Close calls
ClosesMade(n) ==
  IF cidx = 0 THEN closeCalls * n ELSE (closeCalls - 1) * n + (cidx - 1)

\* the errors among the results of the first k l.Close() calls
RECURSIVE CloseErrors(_)
CloseErrors(k) ==
  IF k = 0 THEN <<>>
  ELSE IF closeLog[k].err.nil THEN CloseErrors(k - 1)
  ELSE Append(CloseErrors(k - 1), closeLog[k].err)

\* C6: every Close call closes the bindings one by one in registration
\* order, each exactly once, whatever the earlier closes returned, and
\* logs every error a close returned.
C6_CloseAttemptsEveryBinding ==
  /\ Len(closeLog) = ClosesMade(Len(servers))
  /\ \A k \in 1..Len(closeLog) :
        /\ closeLog[k].call = ((k - 1) \div Len(servers)) + 1
        /\ closeLog[k].l = servers[((k - 1) % Len(servers)) + 1]
  /\ logged = CloseErrors(Len(closeLog))

\* C6, witness: a finished Close call on two bindings whose first close
\* returned an error and whose second close returned nil.
C6_Witness ==
  /\ cidx = 0
  /\ Len(servers) = 2
  /\ Len(closeLog) >= 2
  /\ ~closeLog[1].err.nil
  /\ closeLog[2].err.nil
  /\ closeLog[2].l = servers[2]
  /\ logged # <<>>

\* ------------------------------------------------------------------------
\* Properties of the routing tables and of the swap
\* ------------------------------------------------------------------------
\* the table the server's swapper holds
ActiveTable == muxes[swappers[routerSwapper].router]

\* every table built so far
Tables == {muxes[a] : a \in 1..Len(muxes)}

\* the operations that install a table with the profiler routes
WithProfiler(by) == by \in {"InitRouter(true)", "EnableProfiler"}

\* the table built from the first n providers, with or without profiler
WholeTable(n, prof) ==
  IF prof THEN profilerSetup(createMux(SubSeq(routers, 1, n)))
  ELSE createMux(SubSeq(routers, 1, n))

\* C1: the table a request is matched against is, entry for entry, a
\* table as it was when it was put into the swapper, and every table put
\* into a swapper was whole at that moment: all routes of the providers
\* registered by then, the catch-all, and all profiler routes when the
\* operation is one that adds them.
C1_RequestSeesOneWholeTable ==
  /\ \A s \in installed :
        \E n \in 0..Len(routers) : s.tab = WholeTable(n, WithProfiler(s.by))
  /\ req.pc = "served" =>
        \E s \in installed : s.m = req.rt /\ s.tab = req.seen

\* C1, witness: a request read the table reference, an EnableProfiler then
\* swapped a new table in, and the request was matched against the whole
\* old table.
C1_Witness ==
  /\ req.pc = "served"
  /\ req.rt # swappers[req.sw].router
  /\ \E s \in installed :
        s.m = swappers[req.sw].router /\ s.by = "EnableProfiler"
  /\ req.r.path = <<"debug", "vars">>
  /\ req.h = notFoundHandler

\* the routes of the providers that a table has a registration for
Registered(t) ==
  LET all == AllRoutes(routers)
  IN { k \in 1..Len(all) :
         \E j \in 1..Len(t.routes) :
            t.routes[j].h = makeHTTPHandler(k, all[k].handler) }

\* the version-prefixed form of a path
Versioned(p) == <<"v1.24">> \o p

\* both forms of route k, for the paths of the model that the route's
\* pattern matches, are dispatched to the same handler
BothFormsAgree(t, k) ==
  LET R == AllRoutes(routers)[k]
  IN \A p \in ReqPaths :
       PathMatch(R.path, p) =>
         Dispatch(t, [method |-> R.method, path |-> Versioned(p)])
           = Dispatch(t, [method |-> R.method, path |-> p])

\* no registered route has a pattern that matches a version-prefixed path
NoRouteMatchesVersioned(t) ==
  \A k \in Registered(t), p \in ReqPaths :
     ~PathMatch(AllRoutes(routers)[k].path, Versioned(p))

\* C7, as claimed: in every table built, for every registered route the
\* version-prefixed and the bare request are dispatched to the same handler.
C7_BothFormsSameHandler ==
  \A t \in Tables :
     \A k \in Registered(t) : BothFormsAgree(t, k)

\* C7, amended: the same, in every table none of whose registered routes
\* has a path pattern that matches a version-prefixed path.
C7_BothFormsSameHandlerUnlessShadowed ==
  \A t \in Tables :
     NoRouteMatchesVersioned(t) =>
       \A k \in Registered(t) : BothFormsAgree(t, k)

\* C7, witness: a table with three registered routes, two of them for the
\* same method and path, where GET /v1.24/ping and GET /ping both reach the
\* first provider's handler.
C7_Witness ==
  /\ routers = <<PingRouter, SystemRouter>>
  /\ routerSwapper # 0
  /\ Registered(ActiveTable) = {1, 2, 3}
  /\ NoRouteMatchesVersioned(ActiveTable)
  /\ Dispatch(ActiveTable, [method |-> "GET", path |-> <<"v1.24", "ping">>]).fn = "ping.get"
  /\ Dispatch(ActiveTable, [method |-> "GET", path |-> <<"ping">>]).fn = "ping.get"

\* requests to the diagnostics paths
DiagRequests == [method : Methods, path : {<<"debug", "vars">>, <<"debug", "pprof">>}]

\* what a diagnostics request does on a table installed by operation by
DiagOutcomeOk(by, h) ==
  /\ by = "DisableProfiler" => h = notFoundHandler
  /\ by = "EnableProfiler" => h.kind = "profiler"

\* no provider route of the table matches the request
NoApiRouteMatches(t, r) ==
  \A j \in 1..Len(t.routes) :
     t.routes[j].h.kind = "api" => ~EntryMatches(t.routes[j], r)

\* a call of Enable/DisableProfiler leaves the bindings, their handler,
\* their listeners and their serving goroutines as they are
TogglesKeepBindings ==
  (adm' # adm) => UNCHANGED <<servers, handler, lclosed, gpc, gret, gerr>>

C9_UnmatchedGetsNotFoundError ==
  \A t \in Tables, r \in Requests :
     (\A j \in 1..Len(t.routes) :
         t.routes[j].h.kind \in {"api", "profiler"} => ~EntryMatches(t.routes[j], r))
       => Dispatch(t, r) = notFoundHandler

\* C9, witness: the table the swapper holds has provider routes and the
\* profiler routes, a GET route for /ping but none for POST, and it
\* dispatches POST /ping and POST /v1.24/ping to the request-not-found
\* error handler.
C9_Witness ==
  /\ routerSwapper # 0
  /\ routers = <<PingRouter>>
  /\ \E j \in 1..Len(ActiveTable.routes) : ActiveTable.routes[j].h.kind = "profiler"
  /\ Dispatch(ActiveTable, [method |-> "GET", path |-> <<"ping">>]).kind = "api"
  /\ Dispatch(ActiveTable, [method |-> "POST", path |-> <<"ping">>]) = notFoundHandler
  /\ Dispatch(ActiveTable, [method |-> "POST", path |-> <<"v1.24", "ping">>]) = notFoundHandler

IsApi(e) == e.h.kind = "api"

IsPrefix(s, t) == Len(s) <= Len(t) /\ SubSeq(t, 1, Len(s)) = s

\* route k in its versioned or bare form matches the request
RouteMatches(R, r) ==
  /\ r.method = R.method
  /\ (PathMatch(R.path, r.path) \/ PathMatch(versionMatcher \o R.path, r.path))

\* C10: the table the swapper holds registers every route of every
\* provider passed to any InitRouter call, in provider order then route
\* order, after the routes of every table installed before; and in every
\* table built a request dispatched to a provider route is dispatched to
\* the first registered route that matches it, never to a later one.
C10_FirstRegisteredWins ==
  /\ routerSwapper # 0 =>
       /\ Registered(ActiveTable) = 1..Len(AllRoutes(routers))
       /\ SelectSeq(ActiveTable.routes, IsApi) = RegisterFrom(1, AllRoutes(routers))
       /\ \A s \in installed :
             IsPrefix(SelectSeq(s.tab.routes, IsApi), SelectSeq(ActiveTable.routes, IsApi))
  /\ LET all == AllRoutes(routers)
     IN \A t \in Tables, r \in Requests :
          LET h == Dispatch(t, r)
          IN h.kind = "api" =>
               /\ RouteMatches(all[h.id], r)
               /\ h.fn = all[h.id].handler
               /\ \A k \in 1..(h.id - 1) : ~RouteMatches(all[k], r)

\* C10, witness: two InitRouter calls registered two providers that both
\* have GET /ping, and the table the swapper holds dispatches GET /ping and
\* GET /v1.24/ping to the handler of the provider registered first.
C10_Witness ==
  /\ initCalls = 2
  /\ routers = <<PingRouter, SystemRouter>>
  /\ Cardinality(installed) = 2
  /\ Dispatch(ActiveTable, [method |-> "GET", path |-> <<"ping">>])
       = makeHTTPHandler(1, "ping.get")
  /\ Dispatch(ActiveTable, [method |-> "GET", path |-> <<"v1.24", "ping">>])
       = makeHTTPHandler(1, "ping.get")

\* ------------------------------------------------------------------------
\* Properties of the dispatch adapter
\* ------------------------------------------------------------------------
\* C11: when the adapter has run for a request, exactly one response has
\* been written on the response writer, whether the handler wrote one or
\* not and whether it returned an error or nil.
C11_ExactlyOneResponse ==
  req.pc = "handled" => Len(call.w) = 1

\* the pattern of the route that took the request
MatchedPattern ==
  req.seen.routes[FirstMatch(req.seen.routes, 1, req.r)].pat

\* C12: a request dispatched to a provider route has the wrapped handler of
\* that route invoked exactly once by the adapter, not before the adapter
\* runs, and the variable mapping passed is never null: it holds the
\* variables the route's pattern binds and is empty when it binds none.
C12_InvokedOnceVarsNotNull ==
  /\ req.pc \in {"read", "served"} => call.invoked = 0
  /\ req.pc = "handled" =>
       /\ req.h.kind = "api"
       /\ call.invoked = 1
       /\ call.handlerFunc.fn = req.h.fn
       /\ ~call.vars.null
       /\ call.vars.kv = Bind(MatchedPattern, req.r.path)

\* C12, witness: the adapter has run for GET /ping, whose route binds no
\* variable, under two middlewares, and passed the empty mapping.
C12_Witness ==
  /\ req.pc = "handled"
  /\ req.r = [method |-> "GET", path |-> <<"ping">>]
  /\ req.h.fn = "ping.get"
  /\ Len(call.handlerFunc.mw) = 2
  /\ call.invoked = 1
  /\ call.vars = VarMap(<<>>)

\* what serving request r from table t comes to under the middlewares mw:
\* the handler of the table and, for a provider route, its wrapped handler
Serves(t, mw, r) ==
  LET h == Dispatch(t, r)
  IN [h |-> h,
      handlerFunc |-> IF h.kind = "api"
                      THEN handlerWithGlobalMiddlewares(mw, h.fn)
                      ELSE handlerWithGlobalMiddlewares(<<>>, "")]

\* C13: no step changes what a table that has been put into a swapper
\* dispatches a request to, middleware chain included.
C13_BuiltTableNeverChanges ==
  [][\A s \in installed, r \in AdapterTraffic :
        Serves(muxes'[s.m], middlewares', r) = Serves(muxes[s.m], middlewares, r)]_vars

\* ------------------------------------------------------------------------
\* Properties of the build and of the swapper
\* ------------------------------------------------------------------------
\* the caller of EnableProfiler or DisableProfiler executes m := createMux()
CreateMuxStep == AtStep("createMux") /\ adm' # adm

\* C14: a createMux build leaves the provider list, the middleware list,
\* the bindings and their handler, the swappers and every table built
\* before as they were, and no table held by a swapper dispatches any
\* request differently after the build.
C14_BuildLeavesServerUnchanged ==
  [][CreateMuxStep =>
       /\ UNCHANGED <<routers, middlewares, servers, handler, lclosed>>
       /\ UNCHANGED <<routerSwapper, swappers, installed>>
       /\ Len(muxes') = Len(muxes) + 1
       /\ \A a \in 1..Len(muxes) : muxes'[a] = muxes[a]
       /\ \A sw \in 1..Len(swappers), r \in Requests :
             Dispatch(muxes'[swappers'[sw].router], r)
               = Dispatch(muxes[swappers[sw].router], r)]_vars

\* C14, witness: on a server with a middleware, bindings and providers,
\* DisableProfiler has built its table and not swapped it in yet, and the
\* swapper still holds the table with the profiler routes.
C14_Witness ==
  /\ adm.op = "disable"
  /\ AtStep("Swap")
  /\ adm.m = Len(muxes)
  /\ swappers[routerSwapper].router # adm.m
  /\ muxes[adm.m] # ActiveTable
  /\ Dispatch(ActiveTable, [method |-> "GET", path |-> <<"debug", "vars">>]).kind = "profiler"
  /\ middlewares # <<>>
  /\ servers # <<>>
  /\ routers # <<>>

\* C15: the server has one router swapper for its whole lifetime, and the
\* swapper a binding has as its handler is the one the server holds, the
\* one EnableProfiler and DisableProfiler swap into.
C15_SingleSwapper ==
  /\ Len(swappers) <= 1
  /\ \A b \in 1..Len(handler) : handler[b] # 0 => handler[b] = routerSwapper

\* the table the server's swapper holds was put there by a completed
\* EnableProfiler or DisableProfiler
SwapCompleted ==
  /\ routerSwapper # 0
  /\ \E s \in installed :
        /\ s.m = swappers[routerSwapper].router
        /\ s.by \in {"EnableProfiler", "DisableProfiler"}

\* a binding takes a request and reads the table reference
DispatchBegins == req'.pc = "read" /\ req' # req

\* C16: all bindings started by Wait have the same swapper as handler, and
\* a request whose dispatch begins after a swap has completed is matched
\* against the table that swap installed.
C16_RequestsAfterSwapSeeNewTable ==
  /\ [](\A b1, b2 \in 1..Len(handler) :
          (gpc[b1] # "none" /\ gpc[b2] # "none") => handler[b1] = handler[b2])
  /\ [][(SwapCompleted /\ DispatchBegins) =>
          req'.rt = swappers[routerSwapper].router]_vars

\* ------------------------------------------------------------------------
\* Properties of the completion channel and of Wait after an error
\* ------------------------------------------------------------------------
\* C17: once serveAPI has made the channel its capacity is the number of
\* bindings; every outcome on it was sent by one terminated goroutine, one
\* outcome each; the buffered outcomes never exceed the capacity; and a
\* goroutine whose serving loop has ended always finds a free slot for its
\* send, also after serveAPI has returned.
C17_SendNeverBlocks ==
  /\ wpc # "idle" => chCap = Len(servers)
  /\ Len(chErrors) = Cardinality({b \in Bindings : Terminated(b)})
  /\ Buffered <= chCap
  /\ \A b \in Bindings : gpc[b] = "ret" => Buffered < chCap

\* C17, witness: Wait has sent the error of one binding, no Close was
\* called, and the other binding failed later and has sent its outcome,
\* which stays in the channel.
C17_Witness ==
  /\ wpc = "done"
  /\ ~werr.nil
  /\ closeCalls = 0
  /\ Len(servers) = 2
  /\ \A b \in Bindings : Terminated(b) /\ ~gerr[b].nil
  /\ chRecv = 1
  /\ Buffered = 1

\* Wait has reported the failure of a binding
WaitReportedError == wpc = "done" /\ ~werr.nil

====
